---- MODULE Spec2Model ----
(***************************************************************************)
(* Model of packages/hurlfmt/src/cli/logger.rs: the source-located         *)
(* diagnostic renderer log_error and the closures that bind it.            *)
(*                                                                         *)
(* A string is a sequence of characters; a character is a one-character    *)
(* TLA+ string, and an ANSI escape sequence is a single token.  The        *)
(* diagnostic stream is the sequence of physical lines written so far.     *)
(* usize values are naturals; the two subtractions that can go below zero  *)
(* are modelled with both outcomes a build can produce (a panic with       *)
(* overflow checks, a wrap to a value near 2^64 without).                  *)
(***************************************************************************)
EXTENDS Naturals, Sequences, FiniteSets

VARIABLES
    lines,          \* Vec<String> captured by the logger closure
    color,          \* bool captured by the logger closure
    filename,       \* Option<PathBuf>: {} is None, {p} is Some(p)
    error,          \* the &dyn DisplaySourceError of the current call
    warning,        \* the warning flag of the current call
    stderr,         \* physical lines written to the diagnostic stream
    starts,         \* index in stderr of the first line of each call's report
    pc,             \* position inside log_error
    panic           \* panic message, "" while none

vars == <<lines, color, filename, error, warning, stderr, starts, pc, panic>>

----------------------------------------------------------------------------
(* Bounds of the model *)

MaxLineLen == 2     \* longest raw source line drawn
MaxCol == 3         \* largest start column drawn
MaxCalls == 2       \* invocations of one logger closure (SpecTwice)

----------------------------------------------------------------------------
(* Characters and strings *)

TAB == "\t"
NL == "\n"
SP == " "

\* escape sequences produced by the colored crate and by Format::Ansi
BOLD_RED == "ESC[1;31m"
BOLD_YELLOW == "ESC[1;33m"
BOLD == "ESC[1m"
RESET == "ESC[0m"
EscapeTokens == {BOLD_RED, BOLD_YELLOW, BOLD, RESET}

TabWidth == 4

Min(a, b) == IF a < b THEN a ELSE b
Max(a, b) == IF a < b THEN b ELSE a

\* str::repeat
RECURSIVE Repeat(_, _)
Repeat(c, n) == IF n = 0 THEN <<>> ELSE <<c>> \o Repeat(c, n - 1)

DigitChar(d) == <<"0", "1", "2", "3", "4", "5", "6", "7", "8", "9">>[d + 1]

\* Display of an unsigned integer
RECURSIVE Digits(_)
Digits(n) == IF n < 10 THEN <<DigitChar(n)>>
             ELSE Digits(n \div 10) \o <<DigitChar(n % 10)>>

\* the "{:>width$}" format: pad on the left up to width, never truncate
RightAlign(s, width) ==
    IF Len(s) >= width THEN s ELSE Repeat(SP, width - Len(s)) \o s

\* str::replace(line, "\t", "    ")
RECURSIVE ReplaceTabs(_)
ReplaceTabs(s) ==
    IF s = <<>> THEN <<>>
    ELSE (IF Head(s) = TAB THEN Repeat(SP, TabWidth) ELSE <<Head(s)>>)
         \o ReplaceTabs(Tail(s))

\* split('\n'): the pieces between separators, at least one piece
RECURSIVE SplitFrom(_, _, _)
SplitFrom(s, i, cur) ==
    IF i > Len(s) THEN <<cur>>
    ELSE IF s[i] = NL THEN <<cur>> \o SplitFrom(s, i + 1, <<>>)
    ELSE SplitFrom(s, i + 1, Append(cur, s[i]))

Split(s) == SplitFrom(s, 1, <<>>)

\* eprintln!: the text, then a newline; the stream gains one physical line
\* per newline written
Eprintln(out, text) == out \o Split(text)

----------------------------------------------------------------------------
(* The external capabilities log_error consumes *)

\* StyledString of hurl_core::text: a text and its style
StyledString(content, style) == [content |-> content, style |-> style]

\* StyledString::split('\n'): the pieces keep the style
SplitStyled(s) ==
    LET pieces == Split(s.content)
    IN  [k \in 1..Len(pieces) |-> StyledString(pieces[k], s.style)]

\* StyledString::to_string(format)
ToStringFormat(s, format) ==
    IF format = "Ansi" /\ s.style # "none"
    THEN <<BOLD>> \o s.content \o <<RESET>>
    ELSE s.content

\* colored: "..".red().bold() and "..".yellow().bold()
RedBold(s) == <<BOLD_RED>> \o s \o <<RESET>>
YellowBold(s) == <<BOLD_YELLOW>> \o s \o <<RESET>>

----------------------------------------------------------------------------
(* usize arithmetic *)

\* a - b on usize: the outcomes the build can produce.  With overflow
\* checks a negative difference panics; without, it wraps to 2^64 - val.
UsizeSub(a, b) ==
    IF a >= b
    THEN {[panics |-> FALSE, wrapped |-> FALSE, val |-> a - b]}
    ELSE {[panics |-> TRUE, wrapped |-> FALSE, val |-> 0],
          [panics |-> FALSE, wrapped |-> TRUE, val |-> b - a]}

\* a lookup that falls back to an empty line instead of None
GetLineM(ls, index) ==
    IF ~index.wrapped /\ index.val < Len(ls) THEN {ls[index.val + 1]} ELSE {<<>>}

\* Vec::get(index): Some(line) or None; a wrapped index is past any length
GetLine(ls, index) ==
    IF ~index.wrapped /\ index.val < Len(ls) THEN {ls[index.val + 1]} ELSE {}

----------------------------------------------------------------------------
(* log_error, piece by piece *)

\* thresholds compared with <= instead of <
LineNumberSizeM(n) ==
    IF n <= 100 THEN 2 ELSE IF n <= 1000 THEN 3 ELSE 4

LineNumberSize(n) ==
    IF n < 100 THEN 2 ELSE IF n < 1000 THEN 3 ELSE 4

\* the two colors exchanged
ErrorTypeM(c, w) ==
    LET error_type == IF w THEN <<"w", "a", "r", "n", "i", "n", "g">>
                      ELSE <<"e", "r", "r", "o", "r">>
    IN  IF ~c THEN error_type
        ELSE IF w THEN RedBold(error_type)
        ELSE YellowBold(error_type)

ErrorType(c, w) ==
    LET error_type == IF w THEN <<"w", "a", "r", "n", "i", "n", "g">>
                      ELSE <<"e", "r", "r", "o", "r">>
    IN  IF ~c THEN error_type
        ELSE IF w THEN YellowBold(error_type)
        ELSE RedBold(error_type)

FormatOf(c) == IF c THEN "Ansi" ELSE "Plain"

\* "{}: {}"
HeaderText(error_type, description) ==
    error_type \o <<":", SP>> \o description

\* the location line built from the end position
LocationTextM(size, path, e) ==
    Repeat(SP, size) \o <<"-", "-", ">", SP>> \o path \o <<":">>
    \o Digits(e.end.line) \o <<":">> \o Digits(e.end.column)

\* "{}--> {}:{}:{}"
LocationText(size, path, e) ==
    Repeat(SP, size) \o <<"-", "-", ">", SP>> \o path \o <<":">>
    \o Digits(e.start.line) \o <<":">> \o Digits(e.start.column)

\* "{} |"
GutterText(size) == Repeat(SP, size) \o <<SP, "|">>

\* the context line always prefixed with a space
ContextTextM(size, line_number, raw) ==
    RightAlign(Digits(line_number), size) \o <<SP, "|", SP>> \o ReplaceTabs(raw)

\* "{line_number:>width$} |{line}" over the tab-expanded line
ContextText(size, line_number, raw) ==
    LET line == ReplaceTabs(raw)
    IN  RightAlign(Digits(line_number), size) \o <<SP, "|">>
        \o (IF line = <<>> THEN line ELSE <<SP>> \o line)

\* the fixme block also selected by a zero end column
WholeLineModeM(e) == e.start.column = 0 \/ e.end.column = 0

\* start.column == 0 selects the fixme block
WholeLineMode(e) == e.start.column = 0

\* "{} |   {fixme}" for one line of the fixme text
FixmeText(size, piece, format) ==
    Repeat(SP, size) \o <<SP, "|", SP, SP, SP>> \o ToStringFormat(piece, format)

RECURSIVE FixmeBlock(_, _, _, _)
FixmeBlock(out, size, pieces, format) ==
    IF pieces = <<>> THEN out
    ELSE FixmeBlock(Eprintln(out, FixmeText(size, Head(pieces), format)),
                    size, Tail(pieces), format)

\* the loop over line.chars().enumerate(): i is the 0-based index
RECURSIVE TabShiftFrom(_, _, _, _)
TabShiftFrom(raw, i, limit, tab_shift) ==
    IF i >= Len(raw) THEN tab_shift
    ELSE IF i >= limit THEN tab_shift
    ELSE TabShiftFrom(raw, i + 1, limit,
                      IF raw[i + 1] = TAB THEN tab_shift + 1 ELSE tab_shift)

\* the loop stopping one character late
TabShiftM(raw, column) == TabShiftFrom(raw, 0, column, 0)

TabShift(raw, column) == TabShiftFrom(raw, 0, column - 1, 0)

\* no floor of one caret
CaretCountM(width) == width

\* if width > 1 { width } else { 1 }
CaretCount(width) == IF width > 1 THEN width ELSE 1

\* "{} | {}{} {fixme}"
CaretText(size, column, tab_shift, count, fixme, format) ==
    Repeat(SP, size) \o <<SP, "|", SP>>
    \o Repeat(SP, column - 1 + tab_shift * 3)
    \o Repeat("^", count)
    \o <<SP>> \o ToStringFormat(fixme, format)

\* "{} |\n"
TrailerText(size) == GutterText(size) \o <<NL>>

----------------------------------------------------------------------------
(* Inputs *)

RECURSIVE TextsUpTo(_)
TextsUpTo(n) ==
    IF n = 0 THEN {<<>>}
    ELSE LET shorter == TextsUpTo(n - 1)
         IN  shorter \cup {Append(t, c) : t \in shorter, c \in {TAB, "a"}}

Texts == TextsUpTo(MaxLineLen)

\* a source of n lines: odd lines are t, even lines are t followed by "b"
Source(n, t) == [i \in 1..n |-> IF i % 2 = 1 THEN t ELSE Append(t, "b")]

SmallLens == {1, 2}
LargeLens == {99, 100, 999, 1000, 5000, 10000}
IsSmall(ls) == Len(ls) \in SmallLens

Sources ==
    {Source(n, t) : n \in SmallLens, t \in Texts}
    \cup {Source(n, <<TAB, "a">>) : n \in LargeLens}

Filenames == {{}, {<<"f", ".", "h">>}}

Descriptions == {<<"u", "n">>, <<"e">>}

\* fixme texts: in column mode the text is a single line
BlockFixmes == {StyledString(<<>>, "none"),
                StyledString(<<"x">>, "bold"),
                StyledString(<<"x", NL, "y">>, "bold")}
LineFixmes == {f \in BlockFixmes : \A k \in 1..Len(f.content) : f.content[k] # NL}

Position(l, c) == [line |-> l, column |-> c]

Errors(ls) ==
    LET n == Len(ls)
        startLines == IF IsSmall(ls) THEN 0..(n + 1) ELSE {0, 1, n, n + 1}
        startCols == IF IsSmall(ls) THEN 0..MaxCol ELSE {0, 2}
        endCols == IF IsSmall(ls) THEN 0..MaxCol ELSE {3}
        descriptions == IF IsSmall(ls) THEN Descriptions ELSE {<<"e">>}
    IN  {[description |-> d, start |-> Position(sl, sc),
          end |-> Position(sl + later, ec), fixme |-> f] :
            d \in descriptions, sl \in startLines, sc \in startCols,
            later \in {0, 1}, ec \in endCols, f \in BlockFixmes}

NoError == [description |-> <<>>, start |-> Position(0, 0),
            end |-> Position(0, 0), fixme |-> StyledString(<<>>, "none")]

----------------------------------------------------------------------------
(* State machine *)

\* make_logger_parser_error / make_logger_linter_error: the closure captures
\* lines, color and filename
Init ==
    /\ lines \in Sources
    /\ color \in BOOLEAN
    /\ filename \in Filenames
    /\ error = NoError
    /\ warning = FALSE
    /\ stderr = <<>>
    /\ starts = <<>>
    /\ pc = "ready"
    /\ panic = ""

line_number_size == LineNumberSize(Len(lines))
error_type == ErrorType(color, warning)
format == FormatOf(color)

\* the closure is invoked with an error and the warning flag
Call ==
    /\ pc = "ready"
    /\ \E e \in Errors(lines), w \in BOOLEAN :
        /\ e.start.column = 0 \/ e.fixme \in LineFixmes
        /\ e.start.column = 0 => e.end.line = e.start.line
        /\ error' = e
        /\ warning' = w
    /\ starts' = Append(starts, Len(stderr) + 1)
    /\ pc' = "header"
    /\ UNCHANGED <<lines, color, filename, stderr, panic>>

\* the same closure is invoked again for the same error with the other
\* severity
Recall ==
    /\ pc = "done"
    /\ Len(starts) < MaxCalls
    /\ warning' = ~warning
    /\ starts' = Append(starts, Len(stderr) + 1)
    /\ pc' = "header"
    /\ UNCHANGED <<lines, color, filename, error, stderr, panic>>

PrintHeader ==
    /\ pc = "header"
    /\ stderr' = Eprintln(stderr, HeaderText(error_type, error.description))
    /\ pc' = "location"
    /\ UNCHANGED <<lines, color, filename, error, warning, starts, panic>>

PrintLocation ==
    /\ pc = "location"
    /\ stderr' = IF filename # {}
                 THEN Eprintln(stderr, LocationText(line_number_size,
                                           CHOOSE p \in filename : TRUE, error))
                 ELSE stderr
    /\ pc' = "separator"
    /\ UNCHANGED <<lines, color, filename, error, warning, starts, panic>>

PrintSeparator ==
    /\ pc = "separator"
    /\ stderr' = Eprintln(stderr, GutterText(line_number_size))
    /\ pc' = "context"
    /\ UNCHANGED <<lines, color, filename, error, warning, starts, panic>>

PrintContext ==
    /\ pc = "context"
    /\ \E index \in UsizeSub(error.start.line, 1) :
        IF index.panics
        THEN /\ panic' = "attempt to subtract with overflow"
             /\ pc' = "panic"
             /\ UNCHANGED stderr
        ELSE LET found == GetLine(lines, index)
             IN  IF found = {}
                 THEN /\ panic' = "called Option::unwrap() on a None value"
                      /\ pc' = "panic"
                      /\ UNCHANGED stderr
                 ELSE /\ stderr' = Eprintln(stderr,
                              ContextText(line_number_size, error.start.line,
                                          CHOOSE l \in found : TRUE))
                      /\ pc' = "annotation"
                      /\ UNCHANGED panic
    /\ UNCHANGED <<lines, color, filename, error, warning, starts>>

PrintFixme ==
    /\ pc = "annotation"
    /\ WholeLineMode(error)
    /\ stderr' = FixmeBlock(stderr, line_number_size,
                            SplitStyled(error.fixme), format)
    /\ pc' = "trailer"
    /\ UNCHANGED <<lines, color, filename, error, warning, starts, panic>>

PrintCaret ==
    /\ pc = "annotation"
    /\ ~WholeLineMode(error)
    /\ \E index \in UsizeSub(error.start.line, 1),
          width \in UsizeSub(error.end.column, error.start.column) :
        LET found == GetLine(lines, index)
        IN  IF index.panics \/ width.panics
            THEN /\ panic' = "attempt to subtract with overflow"
                 /\ pc' = "panic"
                 /\ UNCHANGED stderr
            ELSE IF found = {}
            THEN /\ panic' = "called Option::unwrap() on a None value"
                 /\ pc' = "panic"
                 /\ UNCHANGED stderr
            ELSE IF width.wrapped
            THEN \* "^".repeat of more than isize::MAX characters
                 /\ panic' = "capacity overflow"
                 /\ pc' = "panic"
                 /\ UNCHANGED stderr
            ELSE /\ stderr' = Eprintln(stderr,
                        CaretText(line_number_size, error.start.column,
                                  TabShift(CHOOSE l \in found : TRUE,
                                           error.start.column),
                                  CaretCount(width.val), error.fixme, format))
                 /\ pc' = "trailer"
                 /\ UNCHANGED panic
    /\ UNCHANGED <<lines, color, filename, error, warning, starts>>

PrintTrailer ==
    /\ pc = "trailer"
    /\ stderr' = Eprintln(stderr, TrailerText(line_number_size))
    /\ pc' = "done"
    /\ UNCHANGED <<lines, color, filename, error, warning, starts, panic>>

Next ==
    \/ Call
    \/ PrintHeader
    \/ PrintLocation
    \/ PrintSeparator
    \/ PrintContext
    \/ PrintFixme
    \/ PrintCaret
    \/ PrintTrailer

Spec == Init /\ [][Next]_vars

\* one closure over a one-line source, invoked up to MaxCalls times
InitTwice == Init /\ Len(lines) = 1
NextTwice == Next \/ Recall
SpecTwice == InitTwice /\ [][NextTwice]_vars

----------------------------------------------------------------------------
(* Reading the diagnostic stream *)

\* the lines the k-th call has written
ReportOf(k) ==
    SubSeq(stderr, starts[k],
           IF k < Len(starts) THEN starts[k + 1] - 1 ELSE Len(stderr))

\* the lines the current call has written so far
Report == IF starts = <<>> THEN <<>> ELSE ReportOf(Len(starts))

HasLocation == filename # {}
SepIdx == IF HasLocation THEN 3 ELSE 2
CtxIdx == SepIdx + 1
AnnIdx == CtxIdx + 1

ContextPrinted ==
    pc \in {"annotation", "trailer", "done"}
    \/ (pc = "panic" /\ Len(Report) >= CtxIdx)
AnnotationPrinted == pc \in {"trailer", "done"}

ValidLine == error.start.line \in 1..Len(lines)
Raw == lines[error.start.line]

\* the annotation lines of the current report, once they are all written
AnnotationLines ==
    SubSeq(Report, AnnIdx, IF pc = "done" THEN Len(Report) - 2 ELSE Len(Report))

IsPrefix(p, s) == Len(p) <= Len(s) /\ SubSeq(s, 1, Len(p)) = p
Count(s, c) == Cardinality({k \in 1..Len(s) : s[k] = c})
FirstIdx(s, c) == CHOOSE k \in 1..Len(s) : s[k] = c /\ \A j \in 1..(k - 1) : s[j] # c

\* what follows the bar and one space
AfterBar(l) == SubSeq(l, FirstIdx(l, "|") + 2, Len(l))

\* exp is raw with each tab replaced by 4 spaces and nothing else changed
TabsBefore(raw, i) == Cardinality({j \in 1..Min(i - 1, Len(raw)) : raw[j] = TAB})
IsExpansion(exp, raw) ==
    /\ Len(exp) = Len(raw) + 3 * Count(raw, TAB)
    /\ \A i \in 1..Len(raw) :
        LET off == (i - 1) + 3 * TabsBefore(raw, i)
        IN  IF raw[i] = TAB
            THEN \A d \in 1..4 : exp[off + d] = SP
            ELSE exp[off + 1] = raw[i]

----------------------------------------------------------------------------
(* Claims *)

WellFormed ==
    /\ ValidLine
    /\ (error.start.column # 0 /\ error.end.line = error.start.line)
          => error.end.column >= error.start.column

\* C1: every well-formed request (start.line within the source; end.column
\* >= start.column required only for a same-line span in column mode) is
\* rendered to completion: log_error never panics on it.
C1_WellFormedNeverPanics == WellFormed => pc # "panic"

BarAt(l, pos) ==
    /\ Len(l) >= pos
    /\ l[pos] = "|"
    /\ \A j \in 1..(pos - 1) : l[j] # "|"

\* C2: in every report the bar is at character index gutter_width + 1 on
\* every gutter line (separator, context, annotation, trailing gutter line).
C2_BarAligned ==
    \A k \in SepIdx..(IF pc = "done" THEN Len(Report) - 1 ELSE Len(Report)) :
        BarAt(Report[k], line_number_size + 2)

\* C3: in column mode the spaces between "| " and the first caret number
\* (start.column - 1) + 3 * (tabs at raw indices below start.column - 1);
\* when start.column - 1 is inside the line, the tab-expanded context line
\* holds, before that position, exactly the expansion of the raw characters
\* before the pointed one, so the caret is under the pointed character.
C3_CaretOffset ==
    (AnnotationPrinted /\ error.start.column # 0) =>
        LET p == AfterBar(Report[AnnIdx])
            q == AfterBar(Report[CtxIdx])
            col == error.start.column
            k == FirstIdx(p, "^") - 1
        IN  /\ \A j \in 1..k : p[j] = SP
            /\ k = (col - 1) + 3 * TabsBefore(Raw, col)
            /\ (col - 1 < Len(Raw)) =>
                 /\ IsExpansion(SubSeq(q, 1, k), SubSeq(Raw, 1, col - 1))
                 /\ q[k + 1] = (IF Raw[col] = TAB THEN SP ELSE Raw[col])
C3_Witness ==
    /\ AnnotationPrinted
    /\ error.start.column # 0
    /\ Raw = <<TAB, "a">>
    /\ error.start.column = 2
    /\ FirstIdx(AfterBar(Report[AnnIdx]), "^") = 5

\* C4: in column mode the caret run is exactly
\* max(1, end.column - start.column) carets, one for a zero-width span.
C4_CaretRun ==
    (AnnotationPrinted /\ error.start.column # 0) =>
        LET l == Report[AnnIdx]
            first == FirstIdx(l, "^")
            n == Max(1, error.end.column - error.start.column)
        IN  /\ error.end.column >= error.start.column
            /\ Count(l, "^") = n
            /\ \A j \in first..(first + n - 1) : l[j] = "^"
C4_Witness ==
    /\ AnnotationPrinted
    /\ error.start.column # 0
    /\ error.end.column = error.start.column
    /\ Count(Report[AnnIdx], "^") = 1

IsFixmeLine(l, piece) ==
    l = Repeat(SP, line_number_size) \o <<SP, "|", SP, SP, SP>>
        \o ToStringFormat(piece, format)
IsCaretLine(l) ==
    /\ Count(l, "^") >= 1
    /\ IsPrefix(Repeat(SP, line_number_size) \o <<SP, "|", SP>>, l)

\* C5: start.column alone decides the annotation: column 0 gives one
\* fixme-block line per line of the fixme text (at least one, no extra
\* blank line) and no caret line; a nonzero column gives exactly one caret
\* line and no fixme-block line.
C5_AnnotationMode ==
    AnnotationPrinted =>
        LET ann == AnnotationLines
            pieces == SplitStyled(error.fixme)
        IN  IF error.start.column = 0
            THEN /\ Len(ann) = Count(error.fixme.content, NL) + 1
                 /\ \A k \in 1..Len(ann) :
                        IsFixmeLine(ann[k], pieces[k]) /\ ~IsCaretLine(ann[k])
            ELSE /\ Len(ann) = 1
                 /\ IsCaretLine(ann[1])
                 /\ \A k \in 1..Len(pieces) : ~IsFixmeLine(ann[1], pieces[k])
C5_Witness ==
    /\ pc = "done"
    /\ error.start.column = 0
    /\ error.end.column # 0
    /\ error.fixme.content = <<"x", NL, "y">>
    /\ Len(AnnotationLines) = 2

ExpHeader == error_type \o <<":", SP>> \o error.description
ExpLocation ==
    IF HasLocation
    THEN << Repeat(SP, line_number_size) \o <<"-", "-", ">", SP>>
            \o (CHOOSE f \in filename : TRUE) \o <<":">>
            \o Digits(error.start.line) \o <<":">>
            \o Digits(error.start.column) >>
    ELSE <<>>
ExpGutter == Repeat(SP, line_number_size) \o <<SP, "|">>
ExpTop == <<ExpHeader>> \o ExpLocation \o <<ExpGutter>>
IsContextLine(l) ==
    IsPrefix(RightAlign(Digits(error.start.line), line_number_size)
             \o <<SP, "|">>, l)
IsAnnotationLine(l) ==
    \/ IsCaretLine(l)
    \/ \E k \in 1..Len(SplitStyled(error.fixme)) :
          IsFixmeLine(l, SplitStyled(error.fixme)[k])

\* C6: the lines of a call come in a fixed order: header (description
\* verbatim), location line iff a filename was supplied (start position),
\* separator, one context line, the annotation, then the trailing gutter
\* line and one empty line, which end every completed report.
C6_LineOrder ==
    /\ pc = "header" => Report = <<>>
    /\ pc = "location" => Report = <<ExpHeader>>
    /\ pc = "separator" => Report = <<ExpHeader>> \o ExpLocation
    /\ pc = "context" => Report = ExpTop
    /\ pc = "panic" =>
          \/ Report = ExpTop
          \/ /\ Len(Report) = CtxIdx
             /\ IsPrefix(ExpTop, Report)
             /\ IsContextLine(Report[CtxIdx])
    /\ pc = "annotation" =>
          /\ Len(Report) = CtxIdx
          /\ IsPrefix(ExpTop, Report)
          /\ IsContextLine(Report[CtxIdx])
    /\ AnnotationPrinted =>
          /\ IsPrefix(ExpTop, Report)
          /\ IsContextLine(Report[CtxIdx])
          /\ Len(AnnotationLines) >= 1
          /\ \A k \in 1..Len(AnnotationLines) :
                IsAnnotationLine(AnnotationLines[k])
    /\ pc = "trailer" => Len(Report) = CtxIdx + Len(AnnotationLines)
    /\ pc = "done" =>
          /\ Len(Report) = CtxIdx + Len(AnnotationLines) + 2
          /\ Report[Len(Report) - 1] = ExpGutter
          /\ Report[Len(Report)] = <<>>
C6_Witness ==
    /\ pc = "done"
    /\ HasLocation
    /\ error.start.column = 2
    /\ error.end.column = 3
    /\ error.description = <<"u", "n">>
    /\ Len(Report) = 7

\* C7: when start.line is 0 or beyond the last line, the call never gets
\* past the context step: that step ends in a panic, writes nothing, and no
\* context, annotation or trailing line is ever written for the request.
C7_InvalidLineIsFatal ==
    [][(pc' # "ready" /\ ~ValidLine') =>
          /\ pc' \in {"header", "location", "separator", "context", "panic"}
          /\ Len(Report') <= SepIdx
          /\ pc = "context" =>
                (pc' = "panic" /\ panic' # "" /\ stderr' = stderr)]_vars
C7_Witness ==
    /\ pc = "panic"
    /\ error.start.line = Len(lines) + 1
    /\ error.start.column # 0
    /\ Report = ExpTop

\* C8: the gutter width depends only on the number of source lines n: 2
\* when n < 100, 3 when 100 <= n < 1000, 4 when n >= 1000; it is never
\* outside {2, 3, 4} and is non-decreasing in n.
C8_GutterWidth ==
    pc # "ready" =>
        LET n == Len(lines)
            w == IF n < 100 THEN 2 ELSE IF n < 1000 THEN 3 ELSE 4
        IN  /\ line_number_size = w
            /\ line_number_size \in {2, 3, 4}
            /\ \A t \in {<<1, 2>>, <<99, 2>>, <<100, 3>>, <<999, 3>>,
                         <<1000, 4>>, <<5000, 4>>} :
                  LineNumberSize(t[1]) = t[2]
            /\ \A m \in SmallLens \cup LargeLens :
                  m <= n => LineNumberSize(m) <= line_number_size
            /\ Len(Report) >= SepIdx =>
                  Report[SepIdx] = Repeat(SP, w) \o <<SP, "|">>
C8_Witness ==
    /\ pc = "done"
    /\ Len(lines) = 1000
    /\ Report[SepIdx] = <<SP, SP, SP, SP, SP, "|">>

ContextLineOk ==
    LET l == Report[CtxIdx]
        digits == Digits(error.start.line)
        field == IF Len(digits) < line_number_size
                 THEN Repeat(SP, line_number_size - Len(digits)) \o digits
                 ELSE digits
        prefix == field \o <<SP, "|">>
        rest == SubSeq(l, Len(prefix) + 1, Len(l))
    IN  /\ IsPrefix(prefix, l)
        /\ IF Raw = <<>>
           THEN rest = <<>>
           ELSE /\ rest # <<>>
                /\ rest[1] = SP
                /\ Tail(rest) # <<>>
                /\ IsExpansion(Tail(rest), Raw)

\* C9: the context line is the source line at index start.line with every
\* tab replaced by 4 spaces and no other change, printed as the line number
\* right-aligned in the gutter width, " |", then one space and the expanded
\* line when it is non-empty and nothing when it is empty; the source lines
\* are not modified.
C9_ContextLine ==
    [][lines' = lines /\ (ContextPrinted' => ContextLineOk')]_vars
C9_Witness ==
    /\ pc = "annotation"
    /\ Raw = <<TAB, TAB>>
    /\ Report[CtxIdx] = <<SP, "1", SP, "|", SP, SP, SP, SP, SP, SP, SP, SP, SP>>

WarningOf(k) == IF (Len(starts) - k) % 2 = 0 THEN warning ELSE ~warning
SevToken(c, w) ==
    LET word == IF w THEN <<"w", "a", "r", "n", "i", "n", "g">>
                ELSE <<"e", "r", "r", "o", "r">>
    IN  IF ~c THEN word
        ELSE <<(IF w THEN BOLD_YELLOW ELSE BOLD_RED)>> \o word \o <<RESET>>
Rendered(piece) == ToStringFormat(piece, IF color THEN "Ansi" ELSE "Plain")
EndsWith(l, suffix) ==
    Len(suffix) <= Len(l)
    /\ SubSeq(l, Len(l) - Len(suffix) + 1, Len(l)) = suffix
ReportComplete(k) == k < Len(starts) \/ pc = "done"

\* C10: color alone selects the style for the whole report: without color
\* the severity token is the bare word and no escape sequence is added;
\* with color the token is bold red (error) or bold yellow (warning) and
\* every fixme fragment is rendered in the ANSI format.  The warning flag
\* changes the severity token only: the rest of the report is the same.
C10_ColorSelectsStyle ==
    \A k \in 1..Len(starts) :
        LET r == ReportOf(k)
            pieces == SplitStyled(error.fixme)
        IN  /\ Len(r) >= 1 =>
                  r[1] = SevToken(color, WarningOf(k)) \o <<":", SP>>
                         \o error.description
            /\ ~color =>
                  \A i \in 1..Len(r) : \A j \in 1..Len(r[i]) :
                      r[i][j] \notin EscapeTokens
            /\ \A i \in 2..Len(r) : \A j \in 1..Len(r[i]) :
                  r[i][j] \notin {BOLD_RED, BOLD_YELLOW}
            /\ ReportComplete(k) =>
                  IF error.start.column = 0
                  THEN \A i \in 1..Len(pieces) :
                          EndsWith(r[CtxIdx + i],
                                   <<"|", SP, SP, SP>> \o Rendered(pieces[i]))
                  ELSE EndsWith(r[AnnIdx], <<"^", SP>> \o Rendered(error.fixme))
            /\ (k > 1 /\ Len(r) >= 1) =>
                  IsPrefix(Tail(r), Tail(ReportOf(k - 1)))
C10_Witness ==
    /\ pc = "done"
    /\ Len(starts) = 2
    /\ color
    /\ warning
    /\ error.fixme.style = "bold"
    /\ ReportOf(1)[1][1] = BOLD_RED
    /\ ReportOf(2)[1][1] = BOLD_YELLOW
    /\ Tail(ReportOf(1)) = Tail(ReportOf(2))

====
